---- MODULE Spec2Model ----
(***************************************************************************)
(* djpwr_app_settings: the dict-like accessor AppSettingDict               *)
(* (src/djpwr_app_settings/__init__.py), the post_migrate handler          *)
(* (signals.py) and the admin save path of SettingGroupAdmin (admin.py),   *)
(* over a relational settings store and the default file storage.          *)
(*                                                                         *)
(* Python values are tagged records.  A Python str is a sequence of its    *)
(* "/"-separated components, so "" is << >>, "a" is <<"a">> and "d/" is    *)
(* <<"d", "">>.                                                            *)
(***************************************************************************)
EXTENDS Integers, Sequences, FiniteSets, TLC

\* ------------------------------------------------------------ bounds
\* touches of SettingGroup.last_modified after which no further write starts
MaxTouch == 3
\* alternative names the storage can pick from when a path is taken; a save
\* that finds the path and the picked alternative taken does not happen
MaxAlt == 1

\* ------------------------------------------------------------ values
NoneV == [t |-> "None"]
BoolV(b) == [t |-> "bool", b |-> b]
StrV(s) == [t |-> "str", s |-> s]
\* django.core.files.base.File that is not a FieldFile: a new upload
FileV(name, content) == [t |-> "File", name |-> name, content |-> content]
\* django.db.models.fields.files.FieldFile (a subclass of File)
FieldFileV(name) == [t |-> "FieldFile", name |-> name]
\* no ApplicationSetting row for the label
NoRow == [t |-> "NoRow"]

\* isinstance(value, File): FieldFile is a subclass of File
IsFile(v) == v.t \in {"File", "FieldFile"}
IsFieldFile(v) == v.t = "FieldFile"

\* Python truth value: None, False, "" are falsy; File.__bool__ is bool(name)
Truthy(v) ==
    CASE v.t = "None" -> FALSE
      [] v.t = "bool" -> v.b
      [] v.t = "str" -> Len(v.s) > 0
      [] v.t \in {"File", "FieldFile"} -> Len(v.name) > 0
      [] OTHER -> TRUE

\* ------------------------------------------------------------ the settings
AppLabel == "app"
ModelName == "site"
\* the fields of the one setting group model: a FileField and a CharField
FileFields == {"logo"}
Settings == {"logo", "title"}
\* obj._internal_fields of the group model
InternalFields == {"group_name"}
\* form.cleaned_data's fields, in the form's order
FormFields == <<"group_name", "title", "logo">>

\* the uploads a request may carry: the same basename twice, and no basename
Uploads ==
    {FileV(<<"a">>, "c1"), FileV(<<"d", "a">>, "c2"), FileV(<<"d", "">>, "c1")}
\* the non-File values an application assigns
PlainValues == {NoneV, StrV(<< >>), BoolV(FALSE), StrV(<<"x">>)}
\* the default handed to get: a value no setting holds
Defaults == {StrV(<<"dflt">>)}

\* ------------------------------------------------------------ pure helpers
\* model._meta.get_field(setting_name) is a FileField; any lookup error is False
\* faulty variant: every setting is taken for a file setting
is_file_setting_always(setting_name) == TRUE
is_file_setting(setting_name) == setting_name \in FileFields

\* os.path.basename: the text after the last "/"
basename(filename) ==
    IF Len(filename) = 0 THEN "" ELSE filename[Len(filename)]

storage_path_for(setting_name, filename) ==
    LET b == basename(filename)
    IN  <<"app_settings", AppLabel, ModelName, setting_name,
          IF b = "" THEN "upload" ELSE b>>

\* FieldFile/File -> its name or ""; anything else unchanged
extract_storage_value(value) ==
    IF IsFile(value) THEN StrV(value.name) ELSE value

\* default_storage.delete(name): raises on a storage failure, or on a name
\* that is no str; a missing file is no error
StorageDeleteRaises(name, fails) == fails \/ name.t # "str"
StorageDelete(store, name) ==
    [n \in (DOMAIN store) \ {name.s} |-> store[n]]

\* faulty variant: the exception of default_storage.delete propagates
delete_storage_name_propagating(store, name, fails) ==
    IF ~Truthy(name) THEN [store |-> store, raised |-> FALSE]
    ELSE IF StorageDeleteRaises(name, fails)
         THEN [store |-> store, raised |-> TRUE]
         ELSE [store |-> StorageDelete(store, name), raised |-> FALSE]
\* faulty variant: the old file is never deleted
delete_storage_name_noop(store, name, fails) ==
    [store |-> store, raised |-> FALSE]
\* the exception of default_storage.delete is swallowed: raised is never set
delete_storage_name(store, name, fails) ==
    IF ~Truthy(name) THEN [store |-> store, raised |-> FALSE]
    ELSE IF StorageDeleteRaises(name, fails)
         THEN [store |-> store, raised |-> FALSE]
         ELSE [store |-> StorageDelete(store, name), raised |-> FALSE]

\* Storage.get_available_name: the path if free, else the path with a suffix
AltName(path, k) == [path EXCEPT ![5] = path[5] \o "_" \o ToString(k)]
AvailableName(store, path, k) ==
    IF path \notin DOMAIN store THEN path ELSE AltName(path, k)
\* default_storage.save(path, content) -> the name it saved under
StorageSave(store, name, content) ==
    [n \in (DOMAIN store) \cup {name} |-> IF n = name THEN content ELSE store[n]]

\* faulty variant: no test of the name, no None on error
open_as_django_file_unchecked(store, storage_name) ==
    IF storage_name.t = "str" /\ storage_name.s \in DOMAIN store
    THEN FileV(storage_name.s, store[storage_name.s])
    ELSE storage_name
\* default_storage.open + File(f, name=...); None for a falsy name or on error
open_as_django_file(store, storage_name) ==
    IF ~Truthy(storage_name) THEN NoneV
    ELSE IF storage_name.t = "str" /\ storage_name.s \in DOMAIN store
         THEN FileV(storage_name.s, store[storage_name.s])
         ELSE NoneV

\* ------------------------------------------------------------ state
VARIABLES
    tableExists,   \* the app_settings tables exist (migrations have run)
    rows,          \* ApplicationSetting.value per setting name, or NoRow
    lastModified,  \* SettingGroup.last_modified, as a logical clock
    storage,       \* default_storage: stored name -> content
    assigned,      \* per setting, the value of its latest committed assignment
    last,          \* the latest operation: its inputs, outcome and pre-state
    pc,            \* per request process, its position in __setitem__
    req            \* per request process, __setitem__'s locals

vars == <<tableExists, rows, lastModified, storage, assigned, last, pc, req>>

\* the database and storage as one value, for the operators below
DB == [table |-> tableExists, rows |-> rows,
       lastModified |-> lastModified, store |-> storage]

\* manager.get(group__group_name=..., name=...): the row's value, or NoRow
Row(rs, setting_name) ==
    IF setting_name \in DOMAIN rs THEN rs[setting_name] ELSE NoRow

\* ------------------------------------------------------------ AppSettingDict
\* faulty variant: the missing row's exception is let through
getitem_verbatim(db, l) ==
    IF ~db.table THEN [exc |-> "none", ret |-> NoneV]
    ELSE IF Row(db.rows, l) = NoRow
         THEN [exc |-> "ObjectDoesNotExist", ret |-> NoneV]
         ELSE LET value == Row(db.rows, l)
              IN  IF is_file_setting(l)
                  THEN [exc |-> "none",
                        ret |-> open_as_django_file(
                                    db.store, extract_storage_value(value))]
                  ELSE [exc |-> "none", ret |-> value]
\* __getitem__: [exc, ret]
getitem(db, l) ==
    IF ~db.table
    THEN \* ProgrammingError is logged and None returned
         [exc |-> "none", ret |-> NoneV]
    ELSE IF Row(db.rows, l) = NoRow
         THEN [exc |-> "KeyError", ret |-> NoneV]
         ELSE LET value == Row(db.rows, l)
              IN  IF is_file_setting(l)
                  THEN [exc |-> "none",
                        ret |-> open_as_django_file(
                                    db.store, extract_storage_value(value))]
                  ELSE [exc |-> "none", ret |-> value]

\* get: __getitem__, with KeyError turned into the default
get(db, l, default) ==
    LET r == getitem(db, l)
    IN  IF r.exc = "KeyError" THEN [exc |-> "none", ret |-> default] ELSE r

\* __contains__: __getitem__, with KeyError turned into False
contains(db, l) ==
    LET r == getitem(db, l)
    IN  IF r.exc = "KeyError" THEN [exc |-> "none", ret |-> BoolV(FALSE)]
        ELSE IF r.exc = "none" THEN [exc |-> "none", ret |-> BoolV(TRUE)]
        ELSE r

\* isinstance(value, File) and not isinstance(value, FieldFile)
IsNewUpload(value) == IsFile(value) /\ ~IsFieldFile(value)

\* __setitem__ run to its end: the database and storage after it, the
\* exception it raised, and what it saw on the way.  delFails and saveFails
\* are the storage's outcomes, k the suffix the storage picks for a taken
\* path; ok says that the picked name was free.
SetItemResult(db, exc) ==
    [db |-> db, exc |-> exc, old |-> NoneV, saved |-> NoneV,
     delCalled |-> FALSE, delFailed |-> FALSE, saveCalled |-> FALSE,
     altUsed |-> FALSE, ok |-> TRUE]
\* the new-upload branch after the old file's delete: the save and the row
setitem_upload_save(r, store, l, value, path, name, saveFails) ==
    IF saveFails
    THEN [r EXCEPT !.exc = "StorageSaveError", !.saveCalled = TRUE,
                   !.db.store = store]
    ELSE [r EXCEPT !.db.store = StorageSave(store, name, value.content),
                   !.db.rows[l] = StrV(name),
                   !.saved = StrV(name),
                   !.saveCalled = TRUE,
                   !.altUsed = path \in DOMAIN store,
                   !.ok = name \notin DOMAIN store]
setitem_upload_deleted(r, del, l, value, path, saveFails, k) ==
    IF del.raised THEN [r EXCEPT !.exc = "StorageDeleteError"]
    ELSE setitem_upload_save(r, del.store, l, value, path,
                             AvailableName(del.store, path, k), saveFails)
\* the new-upload branch, after the row was read and the group touched
setitem_upload(db1, l, value, old, delFails, saveFails, k) ==
    setitem_upload_deleted(
        [SetItemResult(db1, "none") EXCEPT
            !.old = old,
            !.delCalled = Truthy(old),
            !.delFailed = Truthy(old) /\ StorageDeleteRaises(old, delFails)],
        delete_storage_name(db1.store, old, delFails),
        l, value, storage_path_for(l, value.name), saveFails, k)
\* the other branch: a cleared file setting loses its stored file
setitem_plain_deleted(r, del, l, value) ==
    IF del.raised THEN [r EXCEPT !.exc = "StorageDeleteError"]
    ELSE [r EXCEPT !.db.store = del.store, !.db.rows[l] = value]
setitem_plain(db1, l, value, old, delFails) ==
    LET clear == ~Truthy(value) /\ is_file_setting(l)
        called == clear /\ Truthy(old)
    IN  setitem_plain_deleted(
            [SetItemResult(db1, "none") EXCEPT
                !.old = old,
                !.delCalled = called,
                !.delFailed = called /\ StorageDeleteRaises(old, delFails)],
            IF clear THEN delete_storage_name(db1.store, old, delFails)
            ELSE [store |-> db1.store, raised |-> FALSE],
            l, value)
setitem(db, l, value, delFails, saveFails, k) ==
    IF ~db.table THEN SetItemResult(db, "ProgrammingError")
    ELSE IF Row(db.rows, l) = NoRow
    THEN SetItemResult(db, "ObjectDoesNotExist")
    ELSE
    LET setting == Row(db.rows, l)
        \* touch_last_modified(setting.group)
        db1 == [db EXCEPT !.lastModified = @ + 1]
        old == extract_storage_value(setting)
    IN  IF IsNewUpload(value)
        THEN setitem_upload(db1, l, value, old, delFails, saveFails, k)
        ELSE setitem_plain(db1, l, value, old, delFails)

\* the storage's outcomes are drawn only for the calls that were made: r0 is
\* the run in which every storage call succeeds
Outcomes(r0) ==
    {oc \in BOOLEAN \X BOOLEAN \X (1..MaxAlt) :
        /\ oc[1] => r0.delCalled
        /\ oc[2] => r0.saveCalled
        /\ oc[3] > 1 => r0.saveCalled}
OutcomesUsed(r, delFails, saveFails, k) ==
    /\ delFails => r.delCalled
    /\ saveFails => r.saveCalled
    /\ k > 1 => r.altUsed

\* ------------------------------------------------------------ admin
\* isinstance(obj._meta.get_field(field_name), FileField)
IsFileField(field_name) == field_name \in FileFields

\* faulty variant: an empty cleaned value clears the FileField
field_write_empty_clears(field_name, value) ==
    IF field_name \in InternalFields THEN [write |-> FALSE, value |-> value]
    ELSE IF IsFileField(field_name) /\ ~Truthy(value)
         THEN [write |-> TRUE, value |-> NoneV]
         ELSE [write |-> TRUE, value |-> value]
\* save_model's treatment of one cleaned field: whether it is written through
\* APP_SETTINGS, and with which value
field_write(field_name, value) ==
    IF field_name \in InternalFields THEN [write |-> FALSE, value |-> value]
    ELSE IF IsFileField(field_name) /\ value = BoolV(FALSE)
         THEN [write |-> TRUE, value |-> NoneV]
         ELSE IF IsFileField(field_name) /\ ~Truthy(value)
              THEN [write |-> FALSE, value |-> value]
              ELSE [write |-> TRUE, value |-> value]

SaveResult(db, exc) ==
    [db |-> db, exc |-> exc, writes |-> << >>, ok |-> TRUE,
     delCalled |-> FALSE, delFailed |-> FALSE, saveCalled |-> FALSE,
     altUsed |-> FALSE]

\* the loop's state after the accessor write of field f returned r
save_model_written(acc, r, f, value) ==
    [db |-> r.db, exc |-> r.exc,
     writes |-> Append(acc.writes, <<f, value>>),
     ok |-> acc.ok /\ r.ok,
     delCalled |-> acc.delCalled \/ r.delCalled,
     delFailed |-> acc.delFailed \/ r.delFailed,
     saveCalled |-> acc.saveCalled \/ r.saveCalled,
     altUsed |-> acc.altUsed \/ r.altUsed]

save_model_field(acc, f, d, delFails, saveFails, k) ==
    IF ~d.write THEN acc
    ELSE save_model_written(
             acc, setitem(acc.db, f, d.value, delFails, saveFails, k),
             f, d.value)

\* save_model from cleaned field i on.  acc: the database so far, the
\* exception that ended the loop, the accessor writes made, the storage's
\* picks being free
RECURSIVE save_model_from(_, _, _, _, _, _)
save_model_from(i, acc, cleaned_data, delFails, saveFails, k) ==
    IF i > Len(FormFields) \/ acc.exc # "none" THEN acc
    ELSE save_model_from(
             i + 1,
             save_model_field(
                 acc, FormFields[i],
                 field_write(FormFields[i], cleaned_data[FormFields[i]]),
                 delFails, saveFails, k),
             cleaned_data, delFails, saveFails, k)

save_model(db, cleaned_data, delFails, saveFails, k) ==
    save_model_from(
        1, SaveResult(db, "none"), cleaned_data, delFails, saveFails, k)

\* _changeform_view for a POST, inside changeform_view's transaction.atomic.
\* form: "denied" (no change permission), "invalid" (the form has errors) or
\* "valid"
changeform_post(db, form, cleaned_data, delFails, saveFails, k) ==
    IF ~db.table THEN SaveResult(db, "ProgrammingError")
    ELSE IF \A l \in DOMAIN db.rows : db.rows[l] = NoRow
    THEN SaveResult(db, "ObjectDoesNotExist")
    ELSE IF form = "denied" THEN SaveResult(db, "PermissionDenied")
    ELSE IF form = "invalid" THEN SaveResult(db, "none")
    ELSE save_model(db, cleaned_data, delFails, saveFails, k)

\* ------------------------------------------------------------ operations
NoOp ==
    [op |-> "init", label |-> "", value |-> NoneV, exc |-> "none",
     ret |-> NoneV, old |-> NoneV, saved |-> NoneV, delFailed |-> FALSE,
     valid |-> FALSE, cd |-> << >>, writes |-> << >>,
     pre |-> [rows |-> << >>, store |-> << >>, table |-> FALSE]]

Pre == [rows |-> rows, store |-> storage, table |-> tableExists]

Procs == {1, 2}
NoReq == [label |-> "", value |-> NoneV, old |-> NoneV, saved |-> NoneV]

Init ==
    /\ tableExists = FALSE
    /\ rows = [l \in Settings |-> NoRow]
    /\ lastModified = 0
    /\ storage = << >>
    /\ assigned = [l \in Settings |-> NoRow]
    /\ last = NoOp
    /\ pc = [p \in Procs |-> "idle"]
    /\ req = [p \in Procs |-> NoReq]

\* the migrations create the tables
Migrate ==
    /\ ~tableExists
    /\ tableExists' = TRUE
    /\ last' = [NoOp EXCEPT !.op = "migrate", !.pre = Pre]
    /\ UNCHANGED <<rows, lastModified, storage, assigned, pc, req>>

\* post_migrate: create_group and create_for_group, in one transaction
setup_app_settings ==
    /\ tableExists
    /\ \A l \in Settings : rows[l] = NoRow
    /\ rows' = [l \in Settings |-> NoneV]
    /\ last' = [NoOp EXCEPT !.op = "setup", !.pre = Pre]
    /\ UNCHANGED <<tableExists, lastModified, storage, assigned, pc, req>>

\* value = app_settings[l]
GetItemOp(l) ==
    LET r == getitem(DB, l)
    IN  /\ last' = [NoOp EXCEPT !.op = "getitem", !.label = l,
                                !.exc = r.exc, !.ret = r.ret, !.pre = Pre]
        /\ UNCHANGED <<tableExists, rows, lastModified, storage, assigned,
                       pc, req>>

\* app_settings.get(l, default)
GetOp(l, default) ==
    LET r == get(DB, l, default)
    IN  /\ last' = [NoOp EXCEPT !.op = "get", !.label = l, !.value = default,
                                !.exc = r.exc, !.ret = r.ret, !.pre = Pre]
        /\ UNCHANGED <<tableExists, rows, lastModified, storage, assigned,
                       pc, req>>

\* l in app_settings
ContainsOp(l) ==
    LET r == contains(DB, l)
    IN  /\ last' = [NoOp EXCEPT !.op = "contains", !.label = l,
                                !.exc = r.exc, !.ret = r.ret, !.pre = Pre]
        /\ UNCHANGED <<tableExists, rows, lastModified, storage, assigned,
                       pc, req>>

\* the values a caller may assign in the current state: to a file setting
\* also an upload and the name of a stored file, as a str or as a FieldFile
WriteValues(l) ==
    IF l \in FileFields
    THEN PlainValues \cup Uploads
             \cup {StrV(n) : n \in DOMAIN storage}
             \cup {FieldFileV(n) : n \in DOMAIN storage}
    ELSE PlainValues

\* app_settings[l] = value, in autocommit: what it did before raising stays
SetItemOp(l, value) ==
    /\ lastModified < MaxTouch
    /\ \E r0 \in {setitem(DB, l, value, FALSE, FALSE, 1)} :
       \E oc \in Outcomes(r0) :
       \E r \in {setitem(DB, l, value, oc[1], oc[2], oc[3])} :
        /\ r.ok
        /\ OutcomesUsed(r, oc[1], oc[2], oc[3])
        /\ rows' = r.db.rows
        /\ lastModified' = r.db.lastModified
        /\ storage' = r.db.store
        /\ assigned' = IF r.exc = "none"
                       THEN [assigned EXCEPT ![l] = value] ELSE assigned
        /\ last' = [NoOp EXCEPT !.op = "setitem", !.label = l,
                                !.value = value, !.exc = r.exc,
                                !.old = r.old, !.saved = r.saved,
                                !.delFailed = r.delFailed, !.pre = Pre]
        /\ UNCHANGED <<tableExists, pc, req>>

\* the file the admin form shows as the FileField's current value
InitialFiles ==
    LET v == extract_storage_value(rows["logo"])
    IN  IF v.t = "str" /\ Truthy(v) THEN {FieldFileV(v.s)} ELSE {}

CleanedData ==
    {[group_name |-> StrV(<<"app.site">>), title |-> t, logo |-> f] :
        t \in {StrV(<< >>), StrV(<<"x">>)},
        f \in {NoneV, StrV(<< >>), BoolV(FALSE)} \cup Uploads \cup InitialFiles}

RECURSIVE Assign(_, _)
Assign(a, writes) ==
    IF writes = << >> THEN a
    ELSE Assign([a EXCEPT ![Head(writes)[1]] = Head(writes)[2]], Tail(writes))

\* a POST to the group's admin page: changeform_view; an exception rolls the
\* database back, not the storage
AdminPost(form, cleaned_data) ==
    /\ lastModified < MaxTouch
    /\ \E r0 \in {changeform_post(DB, form, cleaned_data, FALSE, FALSE, 1)} :
       \E oc \in Outcomes(r0) :
       \E r \in {changeform_post(DB, form, cleaned_data, oc[1], oc[2], oc[3])} :
        /\ r.ok
        /\ OutcomesUsed(r, oc[1], oc[2], oc[3])
        /\ rows' = IF r.exc = "none" THEN r.db.rows ELSE rows
        /\ lastModified' =
               IF r.exc = "none" THEN r.db.lastModified ELSE lastModified
        /\ storage' = r.db.store
        /\ assigned' =
               IF r.exc = "none" THEN Assign(assigned, r.writes) ELSE assigned
        /\ last' = [NoOp EXCEPT !.op = "admin_post", !.exc = r.exc,
                                !.valid = (form = "valid"),
                                !.cd = cleaned_data, !.writes = r.writes,
                                !.delFailed = r.delFailed, !.pre = Pre]
        /\ UNCHANGED <<tableExists, pc, req>>

\* a request without change permission, or with form errors, carries no
\* cleaned data
Forms ==
    {<<"denied", cd>> : cd \in {[group_name |-> NoneV, title |-> NoneV, logo |-> NoneV]}}
        \cup {<<"invalid", cd>> : cd \in {[group_name |-> NoneV, title |-> NoneV, logo |-> NoneV]}}
        \cup {<<"valid", cd>> : cd \in CleanedData}

Next ==
    \/ Migrate
    \/ setup_app_settings
    \/ \E l \in Settings : GetItemOp(l)
    \/ \E l \in Settings, d \in Defaults : GetOp(l, d)
    \/ \E l \in Settings : ContainsOp(l)
    \/ \E l \in Settings : \E v \in WriteValues(l) : SetItemOp(l, v)
    \/ \E fm \in Forms : AdminPost(fm[1], fm[2])

Spec == Init /\ [][Next]_vars

\* ------------------------------------------------------------ concurrent requests
\* __setitem__ step by step, each request in autocommit, the storage calls
\* succeeding: read the row and touch the group, delete the old file, save
\* the new file, save the row.

\* setting = ...get(...); touch_last_modified; old_storage_value = ...
setitem_get(p, l, value) ==
    /\ pc[p] \in {"idle", "done"}
    /\ lastModified < MaxTouch
    /\ tableExists
    /\ Row(rows, l) # NoRow
    /\ lastModified' = lastModified + 1
    /\ req' = [req EXCEPT ![p] =
                  [label |-> l, value |-> value,
                   old |-> extract_storage_value(rows[l]), saved |-> NoneV]]
    /\ pc' = [pc EXCEPT ![p] =
                 IF IsNewUpload(value) \/ (~Truthy(value) /\ is_file_setting(l))
                 THEN "delete" ELSE "row"]
    /\ UNCHANGED <<tableExists, rows, storage, assigned, last>>

\* _delete_storage_name(old_storage_value)
setitem_delete(p) ==
    /\ pc[p] = "delete"
    /\ storage' = delete_storage_name(storage, req[p].old, FALSE).store
    /\ pc' = [pc EXCEPT ![p] =
                 IF IsNewUpload(req[p].value) THEN "save" ELSE "row"]
    /\ UNCHANGED <<tableExists, rows, lastModified, assigned, last, req>>

\* saved_name = default_storage.save(storage_path, value)
setitem_save(p, k) ==
    /\ pc[p] = "save"
    /\ \E name \in {AvailableName(
                       storage,
                       storage_path_for(req[p].label, req[p].value.name), k)} :
           /\ name \notin DOMAIN storage
           /\ storage' = StorageSave(storage, name, req[p].value.content)
           /\ req' = [req EXCEPT ![p].saved = StrV(name)]
    /\ pc' = [pc EXCEPT ![p] = "row"]
    /\ UNCHANGED <<tableExists, rows, lastModified, assigned, last>>

\* setting.value = ...; setting.save()
setitem_row(p) ==
    /\ pc[p] = "row"
    /\ rows' = [rows EXCEPT ![req[p].label] =
                   IF IsNewUpload(req[p].value)
                   THEN req[p].saved ELSE req[p].value]
    /\ pc' = [pc EXCEPT ![p] = "done"]
    /\ UNCHANGED <<tableExists, lastModified, storage, assigned, last, req>>

NextConc ==
    \/ Migrate
    \/ setup_app_settings
    \/ \E p \in Procs, l \in FileFields, v \in Uploads : setitem_get(p, l, v)
    \/ \E p \in Procs : setitem_delete(p)
    \/ \E p \in Procs, k \in 1..MaxAlt : setitem_save(p, k)
    \/ \E p \in Procs : setitem_row(p)

SpecConc == Init /\ [][NextConc]_vars

\* ------------------------------------------------------------ claims
\* the latest operation was app_settings[l] = value and it returned
Wrote == last.op = "setitem" /\ last.exc = "none"
\* a non-empty str: what a setting that holds a stored file holds
IsName(v) == v.t = "str" /\ Truthy(v)

\* C1: a non-File value assigned to an existing non-file setting is what
\* app_settings[L] returns, in every later state up to the next assignment
\* to L, whatever was read or written to other labels in between.
C1_RoundTrip ==
    \A l \in Settings \ FileFields :
        (assigned[l] # NoRow /\ ~IsFile(assigned[l]))
            => getitem(DB, l) = [exc |-> "none", ret |-> assigned[l]]

\* title was assigned "x", logo was written after it, and the read returns "x"
C1_Witness ==
    /\ last.op = "getitem" /\ last.label = "title"
    /\ last.ret = StrV(<<"x">>)
    /\ assigned["title"] = StrV(<<"x">>)
    /\ IsName(rows["logo"])
    /\ lastModified = 2

\* an upload over a setting that held the name old has returned
UploadedOver == Wrote /\ IsNewUpload(last.value) /\ IsName(last.old)

\* C2 as stated: after an upload over a setting holding the name old, old is
\* gone from storage, the uploaded content is stored, and the setting holds
\* the name the storage returned.
C2_Original ==
    UploadedOver =>
        /\ last.old.s \notin DOMAIN storage
        /\ last.saved.s \in DOMAIN storage
        /\ storage[last.saved.s] = last.value.content
        /\ rows[last.label] = last.saved

\* C2 amended: the uploaded content is stored under the name the storage
\* returned and the setting holds that name; old is gone from storage unless
\* its delete raised (the exception is swallowed) or the storage reused the
\* name old for the new file.
C2_Amended ==
    UploadedOver =>
        /\ last.saved.s \in DOMAIN storage
        /\ storage[last.saved.s] = last.value.content
        /\ rows[last.label] = last.saved
        /\ (~last.delFailed /\ last.saved # last.old)
               => last.old.s \notin DOMAIN storage

\* an upload replaced a stored file, which is gone, under another name
C2_Witness ==
    /\ UploadedOver
    /\ last.old.s \in DOMAIN last.pre.store
    /\ ~last.delFailed
    /\ last.saved # last.old
    /\ last.old.s \notin DOMAIN storage

\* a falsy value was assigned to a file setting that held the name old
ClearedOver ==
    /\ Wrote
    /\ last.label \in FileFields
    /\ last.value \in {NoneV, StrV(<< >>), BoolV(FALSE)}
    /\ IsName(last.old)

\* C3 as stated: after a clear of a file setting holding the name old, old is
\* gone from storage, the setting holds the assigned falsy value and
\* app_settings[L] returns None.
C3_Original ==
    ClearedOver =>
        /\ last.old.s \notin DOMAIN storage
        /\ rows[last.label] = last.value
        /\ getitem(DB, last.label) = [exc |-> "none", ret |-> NoneV]

\* C3 amended: the setting holds the assigned falsy value and app_settings[L]
\* returns None; old is gone from storage unless its delete raised (the
\* exception is swallowed).
C3_Amended ==
    ClearedOver =>
        /\ rows[last.label] = last.value
        /\ getitem(DB, last.label) = [exc |-> "none", ret |-> NoneV]
        /\ ~last.delFailed => last.old.s \notin DOMAIN storage

\* "" cleared a file setting whose stored file is gone
C3_Witness ==
    /\ ClearedOver
    /\ last.value = StrV(<< >>)
    /\ last.old.s \in DOMAIN last.pre.store
    /\ last.old.s \notin DOMAIN storage

\* the latest operation was an accessor operation on a label that has no row
\* (the table exists)
OnMissingRow ==
    /\ last.op \in {"getitem", "setitem", "get", "contains"}
    /\ last.pre.table
    /\ Row(last.pre.rows, last.label) = NoRow

\* a name the storage hands out for a file of setting l
IsStorageName(v, l) ==
    IsName(v) /\ Len(v.s) = 5 /\ v.s[1] = "app_settings" /\ v.s[4] = l

\* C4: a file setting whose committed value is a non-empty storage name
\* refers to a file that is in storage, after any completed, failed or
\* rolled-back write.
C4_Claim ==
    \A l \in FileFields :
        IsStorageName(extract_storage_value(rows[l]), l)
            => extract_storage_value(rows[l]).s \in DOMAIN storage

\* C5 as stated: on a label without a row, an accessor operation returns or
\* raises the framework's ObjectDoesNotExist unchanged.
C5_Original == OnMissingRow => last.exc \in {"none", "ObjectDoesNotExist"}

\* C5 amended: on a label without a row, __getitem__ raises KeyError,
\* __setitem__ raises the framework's ObjectDoesNotExist unchanged, get
\* returns the default and __contains__ returns False.
C5_Amended ==
    OnMissingRow =>
        /\ last.op = "getitem" => last.exc = "KeyError"
        /\ last.op = "setitem" => last.exc = "ObjectDoesNotExist"
        /\ last.op = "get" => last.exc = "none" /\ last.ret = last.value
        /\ last.op = "contains"
               => last.exc = "none" /\ last.ret = BoolV(FALSE)

\* app_settings[L] on a label without a row raised KeyError
C5_Witness == OnMissingRow /\ last.op = "getitem" /\ last.exc = "KeyError"

\* C6: L in app_settings is True exactly if L has a row, and get(L, d) is d
\* without a row and what app_settings[L] returns with one, also while the
\* table does not exist.
C6_Claim ==
    /\ last.op = "contains" =>
           /\ last.exc = "none"
           /\ last.ret = BoolV(tableExists /\ rows[last.label] # NoRow)
    /\ last.op = "get" =>
           /\ last.exc = "none"
           /\ last.ret = IF tableExists /\ rows[last.label] # NoRow
                         THEN getitem(DB, last.label).ret
                         ELSE last.value

\* C7: when the delete of the old stored file raises, the exception is not
\* what __setitem__ raises: a clear returns with the assigned value stored,
\* an upload goes on to the storage save and, if that returns, returns with
\* the saved name stored.
C7_DeleteNeverBlocks ==
    (last.op = "setitem" /\ last.delFailed) =>
        IF IsNewUpload(last.value)
        THEN /\ last.exc \in {"none", "StorageSaveError"}
             /\ last.exc = "none" =>
                    /\ rows[last.label] = last.saved
                    /\ last.saved.s \in DOMAIN storage
        ELSE /\ last.exc = "none"
             /\ rows[last.label] = last.value

\* an upload returned although the delete of the old file had raised; the old
\* file is still there
C7_Witness ==
    /\ UploadedOver
    /\ last.delFailed
    /\ rows[last.label] = last.saved
    /\ last.old.s \in DOMAIN storage

\* the latest operation was an admin POST whose form was valid
Posted == last.op = "admin_post" /\ last.valid

\* the accessor writes a complete save_model makes for cleaned_data
Written(f, value) == \E i \in DOMAIN last.writes : last.writes[i] = <<f, value>>
WrittenAt(f) == \E i \in DOMAIN last.writes : last.writes[i][1] = f

\* C8: save_model leaves a FileField whose cleaned value is None or "" alone
\* (stored value and stored files unchanged), writes None for a cleaned
\* False, never writes an internal field, and writes every other field with
\* its cleaned value.
C8_SaveModel ==
    Posted =>
        /\ \A f \in InternalFields : ~WrittenAt(f)
        /\ \A f \in FileFields :
               last.cd[f] \in {NoneV, StrV(<< >>)} =>
                   /\ ~WrittenAt(f)
                   /\ rows[f] = last.pre.rows[f]
                   /\ storage = last.pre.store
        /\ last.exc = "none" =>
               \A f \in DOMAIN last.cd \ InternalFields :
                   IF f \in FileFields /\ last.cd[f] = BoolV(FALSE)
                   THEN Written(f, NoneV)
                   ELSE IF f \in FileFields
                           /\ last.cd[f] \in {NoneV, StrV(<< >>)}
                        THEN TRUE
                        ELSE Written(f, last.cd[f]) /\ assigned[f] = last.cd[f]

\* a POST without an upload and without the clear box kept the stored file
C8_Witness ==
    /\ Posted /\ last.exc = "none"
    /\ last.cd["logo"] = StrV(<< >>)
    /\ last.cd["title"] = StrV(<<"x">>)
    /\ rows["title"] = StrV(<<"x">>)
    /\ IsName(rows["logo"])
    /\ rows["logo"].s \in DOMAIN storage

\* no file saved for the file setting but the one its stored value names
NoOrphans ==
    \A n \in DOMAIN storage :
        n[4] \in FileFields => extract_storage_value(rows[n[4]]) = StrV(n)

\* C9: an assignment to the file setting that returns, with every storage
\* call succeeding, keeps storage free of files saved for the setting other
\* than the one its stored value names.
C9_Claim ==
    [][(/\ NoOrphans
        /\ last'.op = "setitem" /\ last'.exc = "none"
        /\ last'.label \in FileFields
        /\ ~last'.delFailed) => NoOrphans']_vars

\* C10: once two interleaved uploads to the file setting have both returned,
\* the setting's stored value names a file in storage and storage holds no
\* other file saved for the setting.
C10_Claim ==
    (\A p \in Procs : pc[p] = "done" /\ IsNewUpload(req[p].value)) =>
        /\ NoOrphans
        /\ \A l \in FileFields :
               /\ IsName(rows[l])
               /\ rows[l].s \in DOMAIN storage

====
